---- MODULE Spec2Model ----
(***************************************************************************)
(* The book-update form (UpdateBookModal.tsx): a react-hook-form form      *)
(* initialised from a book record, a submit control gated by               *)
(* isLoading / hasChanged / isValid, one remote mutation (updateBook) and  *)
(* the notifications and navigation that follow its completion.            *)
(*                                                                         *)
(* An optional JavaScript value is a set with at most one element:         *)
(* {} is undefined, {v} is the value v.                                    *)
(***************************************************************************)
EXTENDS Integers, Sequences, FiniteSets, TLC

(* ---- bounds ---- *)
MaxCopies == 1
MaxSubmits == 2
MaxGenres == 2

(* ---- input domains ---- *)
Titles == {"", "t1"}
Authors == {"", "a1"}
Isbns == {"", "i1"}
SelectItems == <<"FICTION", "NON_FICTION", "SCIENCE", "HISTORY", "BIOGRAPHY", "FANTASY">>
GenreItems == {SelectItems[i] : i \in 1..MaxGenres}
Descriptions == {"", "d1"}
CopiesInput == (0 - 1)..MaxCopies
Messages == {{}, {""}, {"msg"}}

(* Response of a fulfilled update: an object with an optional message. *)
Responses == [message : Messages]

(* Error of a rejected update: `data` is absent (e.g. a fetch error) or an
   object with an optional message. *)
ApiErrors == [data : {{}} \cup {{d} : d \in [message : Messages]}]

(* The book records handed to the component as the `book` prop. *)
Books ==
    [_id : {"b1"}, title : {"t1"}, author : {"a1"}, isbn : {"i1"},
     genre : {"", "FICTION"}, description : {"d1"}, copies : 0..1,
     available : {{}, {TRUE}, {FALSE}}]

VARIABLES book, formValues, isValid, mutation, inflight, submits, issued, log

vars == <<book, formValues, isValid, mutation, inflight, submits, issued, log>>

(* ---- pure helpers ---- *)

(* a ?? d *)
Nullish(a, d) == IF a = {} THEN d ELSE CHOOSE v \in a : TRUE

(* (optional string) || d *)
OrDefault(a, d) == IF a = {} \/ a = {""} THEN d ELSE CHOOSE v \in a : TRUE

defaultValues(b) ==
    [title |-> b.title, author |-> b.author, isbn |-> b.isbn,
     genre |-> b.genre, description |-> b.description, copies |-> b.copies,
     available |-> Nullish(b.available, TRUE)]

(* Validate with the min rule of copies left out. *)
Validate_noMin(v) ==
    /\ v.title # ""
    /\ v.author # ""
    /\ v.isbn # ""
    /\ v.genre # ""

(* Validate with the required rule of genre left out. *)
Validate_noGenre(v) ==
    /\ v.title # ""
    /\ v.author # ""
    /\ v.isbn # ""
    /\ v.copies >= 0

(* The required / min rules of the six FormFields. *)
Validate(v) ==
    /\ v.title # ""
    /\ v.author # ""
    /\ v.isbn # ""
    /\ v.genre # ""
    /\ v.copies >= 0

watchedValues == formValues

hasChanged ==
    \/ watchedValues.title # book.title
    \/ watchedValues.author # book.author
    \/ watchedValues.isbn # book.isbn
    \/ watchedValues.genre # book.genre
    \/ watchedValues.description # book.description
    \/ watchedValues.copies # book.copies
    \/ {watchedValues.available} # book.available

isLoading == mutation.status = "pending"

(* submitDisabled with the loading flag left out. *)
submitDisabled_noLoading == ~hasChanged \/ ~isValid

submitDisabled == isLoading \/ ~hasChanged \/ ~isValid

(* errMsg with ?? in place of ||: an empty message is shown as it is. *)
errMsg_nullish(error) ==
    IF error.data = {} THEN "Failed to update book"
    ELSE Nullish((CHOOSE d \in error.data : TRUE).message, "Failed to update book")

errMsg(error) ==
    IF error.data = {} THEN "Failed to update book"
    ELSE OrDefault((CHOOSE d \in error.data : TRUE).message, "Failed to update book")

Uninitialized == [status |-> "uninitialized", requestId |-> 0, data |-> {}, error |-> {}]

(* ---- state machine ---- *)

Init ==
    /\ book \in Books
    /\ formValues = defaultValues(book)
    /\ isValid = Validate(formValues)
    /\ mutation = Uninitialized
    /\ inflight = <<>>
    /\ submits = 0
    /\ issued = 0
    /\ log = <<>>

(* field.onChange of a FormField in mode "onChange": the value is stored
   and the form is re-validated. *)
SetValue(name, value) ==
    /\ formValues' = [formValues EXCEPT ![name] = value]
    /\ isValid' = Validate(formValues')
    /\ UNCHANGED <<book, mutation, inflight, submits, issued, log>>

EditTitle == \E s \in Titles : SetValue("title", s)

EditAuthor == \E s \in Authors : SetValue("author", s)

EditIsbn == \E s \in Isbns : SetValue("isbn", s)

EditGenre == \E g \in GenreItems : SetValue("genre", g)

EditDescription == \E s \in Descriptions : SetValue("description", s)

EditCopies == \E n \in CopiesInput : SetValue("copies", n)

(* onSubmitArg without the recomputation of available. *)
onSubmitArg_keepAvailable(formData) ==
    [id |-> book._id, title |-> formData.title, author |-> formData.author,
     isbn |-> formData.isbn, genre |-> formData.genre,
     description |-> formData.description, copies |-> formData.copies,
     available |-> formData.available]

(* onSubmitArg built from the original record except for the fields that
   differ: the description is taken from the book. *)
onSubmitArg_staleDescription(formData) ==
    [id |-> book._id, title |-> formData.title, author |-> formData.author,
     isbn |-> formData.isbn, genre |-> formData.genre,
     description |-> book.description, copies |-> formData.copies,
     available |-> formData.copies > 0]

(* The record onSubmit passes to updateBook. *)
onSubmitArg(formData) ==
    [id |-> book._id, title |-> formData.title, author |-> formData.author,
     isbn |-> formData.isbn, genre |-> formData.genre,
     description |-> formData.description, copies |-> formData.copies,
     available |-> formData.copies > 0]

(* updateBook(arg): a new request is started and the hook tracks it. *)
updateBook(arg) ==
    /\ issued' = issued + 1
    /\ inflight' = Append(inflight, [requestId |-> issued + 1, arg |-> arg])
    /\ mutation' = [status |-> "pending", requestId |-> issued + 1,
                    data |-> {}, error |-> {}]

(* A click on the enabled submit button: handleSubmit validates a copy of
   the form values and calls onSubmit only when they are valid. *)
Submit ==
    /\ ~submitDisabled
    /\ submits < MaxSubmits
    /\ submits' = submits + 1
    /\ IF Validate(formValues)
       THEN updateBook(onSubmitArg(formValues))
       ELSE UNCHANGED <<mutation, inflight, issued>>
    /\ UNCHANGED <<book, formValues, isValid, log>>

Remove(s, i) == [j \in 1..(Len(s) - 1) |-> IF j < i THEN s[j] ELSE s[j + 1]]

(* Fulfilled with the navigation issued before the toast. *)
Fulfilled_navigateFirst(i, res) ==
    /\ inflight' = Remove(inflight, i)
    /\ mutation' = IF mutation.requestId = inflight[i].requestId
                   THEN [mutation EXCEPT !.status = "fulfilled", !.data = {res}]
                   ELSE mutation
    /\ log' = log \o <<[type |-> "navigate", arg |-> "/books"],
                       [type |-> "toast.success",
                        arg |-> OrDefault(res.message, "Book updated successfully")]>>
    /\ UNCHANGED <<book, formValues, isValid, submits, issued>>

(* The request resolves: unwrap() returns res, onSubmit shows the success
   toast and navigates. *)
Fulfilled(i, res) ==
    /\ inflight' = Remove(inflight, i)
    /\ mutation' = IF mutation.requestId = inflight[i].requestId
                   THEN [mutation EXCEPT !.status = "fulfilled", !.data = {res}]
                   ELSE mutation
    /\ log' = log \o <<[type |-> "toast.success",
                        arg |-> OrDefault(res.message, "Book updated successfully")],
                       [type |-> "navigate", arg |-> "/books"]>>
    /\ UNCHANGED <<book, formValues, isValid, submits, issued>>

(* Rejected with a retry: the failed request is issued again. *)
Rejected_retry(i, err) ==
    /\ issued' = issued + 1
    /\ inflight' = Append(Remove(inflight, i),
                          [requestId |-> issued + 1, arg |-> inflight[i].arg])
    /\ mutation' = [status |-> "pending", requestId |-> issued + 1,
                    data |-> {}, error |-> {}]
    /\ log' = Append(log, [type |-> "toast.error", arg |-> errMsg(err)])
    /\ UNCHANGED <<book, formValues, isValid, submits>>

(* The request rejects: unwrap() throws, so onSubmit stops; the hook turns
   isError on and the effect on [isError, error] shows the error toast. *)
Rejected(i, err) ==
    /\ inflight' = Remove(inflight, i)
    /\ IF mutation.requestId = inflight[i].requestId
       THEN /\ mutation' = [mutation EXCEPT !.status = "rejected", !.error = {err}]
            /\ log' = Append(log, [type |-> "toast.error", arg |-> errMsg(err)])
       ELSE UNCHANGED <<mutation, log>>
    /\ UNCHANGED <<book, formValues, isValid, submits, issued>>

RequestFulfilled == \E i \in DOMAIN inflight : \E res \in Responses : Fulfilled(i, res)

RequestRejected == \E i \in DOMAIN inflight : \E err \in ApiErrors : Rejected(i, err)

Next ==
    \/ EditTitle
    \/ EditAuthor
    \/ EditIsbn
    \/ EditGenre
    \/ EditDescription
    \/ EditCopies
    \/ Submit
    \/ RequestFulfilled
    \/ RequestRejected

Spec == Init /\ [][Next]_vars

(* ---- properties ---- *)

(* The six fields the form shows hold the values of the original record. *)
FieldsEqualOriginal ==
    /\ formValues.title = book.title
    /\ formValues.author = book.author
    /\ formValues.isbn = book.isbn
    /\ formValues.genre = book.genre
    /\ formValues.description = book.description
    /\ formValues.copies = book.copies

RequiredEmptyOrNegative ==
    \/ formValues.title = ""
    \/ formValues.author = ""
    \/ formValues.isbn = ""
    \/ formValues.genre = ""
    \/ formValues.copies < 0

Fails == mutation.status = "pending" /\ mutation'.status = "rejected"

Succeeds == mutation.status = "pending" /\ mutation'.status = "fulfilled"

Navigations(l) == Cardinality({k \in DOMAIN l : l[k].type = "navigate"})

(* C1: whenever every form field equals the value of the original record
   (a record without an available flag included), the submit control is
   disabled. *)
C1_UnchangedDisabled == FieldsEqualOriginal => submitDisabled

(* C2: whenever title, author, ISBN or genre is empty, or copies is
   negative, the submit control is disabled. *)
C2_InvalidDisabled == RequiredEmptyOrNegative => submitDisabled

C2_Witness ==
    /\ formValues.copies < 0
    /\ formValues.title # ""
    /\ hasChanged
    /\ ~isLoading

(* C3: at most one update request is in flight at a time, and the submit
   control is disabled for as long as one is. *)
C3_OneInFlight ==
    /\ Len(inflight) <= 1
    /\ inflight # <<>> => submitDisabled

C3_Witness ==
    /\ Len(inflight) = 1
    /\ issued = 2
    /\ hasChanged
    /\ isValid

(* C4: a step in which the update request fails appends exactly one entry
   to the log of notifications and navigations: an error notification that
   carries the message of the error payload when the payload has a
   non-empty one, and "Failed to update book" otherwise. *)
C4_FailureShowsError ==
    [][Fails =>
        LET e == CHOOSE x \in mutation'.error : TRUE
            text == IF e.data = {} THEN {"Failed to update book"}
                    ELSE LET d == CHOOSE x \in e.data : TRUE
                         IN  IF d.message \in {{}, {""}}
                             THEN {"Failed to update book"} ELSE d.message
        IN  /\ mutation'.error # {}
            /\ Len(log') = Len(log) + 1
            /\ SubSeq(log', 1, Len(log)) = log
            /\ log'[Len(log')].type = "toast.error"
            /\ {log'[Len(log')].arg} = text]_vars

C4_Witness ==
    /\ mutation.status = "rejected"
    /\ log # <<>>
    /\ log[Len(log)] = [type |-> "toast.error", arg |-> "msg"]
    /\ Navigations(log) = 0

(* C5: a step in which the update request succeeds appends the success
   notification (the message of the response, or "Book updated
   successfully" when it has none) and then the navigation to /books; no
   other step adds a navigation. *)
C5_SuccessThenNavigate ==
    [][/\ Succeeds =>
            LET res == CHOOSE x \in mutation'.data : TRUE
                text == IF res.message \in {{}, {""}}
                        THEN {"Book updated successfully"} ELSE res.message
            IN  /\ Len(log') = Len(log) + 2
                /\ SubSeq(log', 1, Len(log)) = log
                /\ log'[Len(log) + 1].type = "toast.success"
                /\ {log'[Len(log) + 1].arg} = text
                /\ log'[Len(log) + 2] = [type |-> "navigate", arg |-> "/books"]
       /\ Navigations(log') # Navigations(log) => Succeeds]_vars

C5_Witness ==
    /\ mutation.status = "fulfilled"
    /\ Len(log) = 2
    /\ log[1] = [type |-> "toast.success", arg |-> "Book updated successfully"]
    /\ log[2] = [type |-> "navigate", arg |-> "/books"]

(* C6: every record sent to the remote update has available = (copies > 0). *)
C6_AvailableRecomputed ==
    \A k \in DOMAIN inflight :
        inflight[k].arg.available = (inflight[k].arg.copies > 0)

C6_Witness ==
    /\ inflight # <<>>
    /\ inflight[1].arg.copies = 0
    /\ inflight[1].arg.available = FALSE
    /\ formValues.copies = 0
    /\ formValues.available = TRUE
    /\ book.available = {TRUE}

(* C7: no record sent to the remote update has an empty title, author,
   ISBN or genre, or a negative number of copies. *)
C7_OnlyValidSent ==
    \A k \in DOMAIN inflight :
        /\ inflight[k].arg.title # ""
        /\ inflight[k].arg.author # ""
        /\ inflight[k].arg.isbn # ""
        /\ inflight[k].arg.genre # ""
        /\ inflight[k].arg.copies >= 0

C7_Witness ==
    /\ inflight # <<>>
    /\ issued = 2
    /\ ~isValid
    /\ book.genre = ""

(* C8: the number of update requests issued never exceeds the number of
   submit events accepted from the user. *)
C8_NoRetry == issued <= submits

C8_Witness ==
    /\ mutation.status = "rejected"
    /\ inflight = <<>>
    /\ issued = 1
    /\ submits = 1

(* C9: a request that is sent carries the identifier of the original book
   and the values of title, author, ISBN, genre, description and copies the
   form holds at that moment; the identifier of the book never changes. *)
C9_FullRecordSent ==
    [][/\ book'._id = book._id
       /\ Len(inflight') > Len(inflight) =>
            LET arg == inflight'[Len(inflight')].arg
            IN  /\ arg.id = book._id
                /\ arg.title = formValues.title
                /\ arg.author = formValues.author
                /\ arg.isbn = formValues.isbn
                /\ arg.genre = formValues.genre
                /\ arg.description = formValues.description
                /\ arg.copies = formValues.copies]_vars

C9_Witness ==
    /\ inflight # <<>>
    /\ inflight[1].arg.id = book._id
    /\ inflight[1].arg.description = ""
    /\ inflight[1].arg.title = book.title
    /\ inflight[1].arg.genre = book.genre
    /\ formValues.description = "d1"

(* C10: once an update request has failed, the submit control is enabled
   exactly when some field differs from the original record and the form is
   valid. *)
C10_EnabledAfterFailure ==
    mutation.status = "rejected" =>
        (~submitDisabled <=> (~FieldsEqualOriginal /\ ~RequiredEmptyOrNegative))

====
